---- MODULE Spec2Model ----
(***************************************************************************)
(* Authentication session coordination of the single-page application:     *)
(* AuthService (a wrapper of the oidc-client-ts UserManager), the          *)
(* AuthCallback route component, the AuthProvider context, ProtectedRoute, *)
(* the Login page and the axios request interceptor.                       *)
(*                                                                         *)
(* JavaScript runs one task at a time: an action of this model is one      *)
(* stretch of code between two suspension points that wait for something   *)
(* outside the event loop (a network exchange, a setTimeout).  Awaits that *)
(* only read localStorage settle in microtasks of the same task and are    *)
(* part of the action that starts them.                                    *)
(***************************************************************************)
EXTENDS Integers, Sequences, FiniteSets, TLC

\* ------------------------------------------------------------------------
\* Bounds of the model
\* ------------------------------------------------------------------------
MaxMounts == 2        \* mounts of the AuthCallback component per page load
MaxReruns == 1        \* repeated runs of the effect body (Strict Mode)
MaxTime == 2          \* the clock runs 0..MaxTime
MaxLogins == 1        \* clicks on the sign-in button
RenewMargin == 1      \* seconds before expiry at which the renewal is due

Mounts == 1..MaxMounts

\* ------------------------------------------------------------------------
\* Values
\* ------------------------------------------------------------------------
NoUser == [present |-> FALSE]
\* A userStore entry that cannot be read back (User.fromStorageString
\* throws): userManager.getUser() rejects.
Unreadable == [present |-> FALSE, access_token |-> "null", expires_at |-> 0,
               unreadable |-> TRUE]
NoUrl == "null"                    \* sessionStorage.getItem -> null
Null == "null"                     \* a null string result
Home == "/"
LoginPath == "/login"
CallbackPath == "/auth/callback"
IdentityServer == "identity-server"
\* pathname + search of the protected targets the user may ask for
Targets == {"/", "/game?x=1"}

\* Errors a rejected signinRedirectCallback carries, by their message text.
NoError == "none"
NoMatchingState == "NoMatchingState"
InvalidGrant == "InvalidGrant"
NetworkError == "NetworkError"
VerificationFailed == "VerificationFailed"

Chars(s) ==
  CASE s = NoMatchingState ->
         <<"N","o"," ","m","a","t","c","h","i","n","g"," ","s","t","a","t","e",
           " ","f","o","u","n","d"," ","i","n"," ","s","t","o","r","a","g","e">>
    [] s = InvalidGrant ->
         <<"i","n","v","a","l","i","d","_","g","r","a","n","t">>
    [] s = NetworkError ->
         <<"F","a","i","l","e","d"," ","t","o"," ","f","e","t","c","h">>
    [] s = VerificationFailed ->
         <<"A","u","t","h","e","n","t","i","c","a","t","i","o","n"," ",
           "v","e","r","i","f","i","c","a","t","i","o","n"," ",
           "f","a","i","l","e","d">>
    [] OTHER -> << >>

\* String.prototype.includes on character sequences
Includes(text, needle) ==
  \E i \in 0..(Len(text) - Len(needle)) :
     \A j \in 1..Len(needle) : text[i + j] = needle[j]

\* ------------------------------------------------------------------------
\* State
\* ------------------------------------------------------------------------
VARIABLES
  now,            \* the clock (epoch seconds)
  storedUser,     \* the User in localStorage (userStore), or NoUser
  stateStored,    \* the signin state record signinRedirect left in storage
  codeValid,      \* whether the code of the current redirect is redeemable
  returnUrl,      \* sessionStorage item 'returnUrl', or NoUrl
  location,       \* the route the browser shows
  loginTarget,    \* returnUrl as it was when the login redirect began
  logins,         \* Login: clicks on the sign-in button so far
  signIn,         \* Login: where handleLogin stands
  user,           \* AuthProvider: useState user
  isLoading,      \* AuthProvider: useState isLoading
  routeDecision,  \* what ProtectedRoute rendered last
  lastRequest,    \* the last API request the interceptor passed on
  mounted,        \* AuthCallback: the component instance exists
  hasProcessed,   \* AuthCallback: useRef(false).current
  reruns,         \* AuthCallback: runs of the effect body after a first run
  loginCalls,     \* AuthCallback: authService.completeLogin() calls made
  pc,             \* AuthCallback: where completeAuthentication stands
  loginResult,    \* AuthCallback: how the completeLogin() promise settled
  caught,         \* AuthCallback: the err of the catch block
  checks,         \* AuthCallback: isAuthenticated() results seen in the catch block
  error,          \* AuthCallback: useState error
  navTo,          \* AuthCallback: the argument of its navigate() call
  subscribed,     \* AuthProvider: its three event handlers are registered
  renewal,        \* UserManager: the silent renewal of the stored user
  renewAttempts,  \* UserManager: renewals started for the stored user
  renewCalls,     \* SilentRenew: completeSilentRenew() calls in the iframe
  signout,        \* AuthService.logout: where the call stands, and its caller
  unhandled,      \* a promise rejected with no caller to catch it
  query,          \* useAutocomplete: useState query (its characters)
  results,        \* useAutocomplete: useState results (the titles)
  hookLoading,    \* useAutocomplete: useState loading
  fetchError,     \* useAutocomplete: useState error
  isOpen,         \* useAutocomplete: useState isOpen
  activeIndex,    \* useAutocomplete: useState activeIndex
  cache,          \* useAutocomplete: cacheRef.current
  lastRequested,  \* useAutocomplete: lastRequestedRef.current
  debounce,       \* useAutocomplete: the timer debounceRef.current names
  inflight        \* fetcher(query) promises not yet settled, by query

autoVars == <<query, results, hookLoading, fetchError, isOpen, activeIndex,
              cache, lastRequested, debounce, inflight>>

pageVars == <<storedUser, stateStored, codeValid, returnUrl, location,
              loginTarget, logins, user, isLoading, routeDecision,
              lastRequest, mounted, hasProcessed, reruns, loginCalls, pc,
              loginResult, caught, checks, error, navTo, signIn, subscribed,
              renewal, renewAttempts, renewCalls, signout, unhandled>>

vars == <<now, pageVars, autoVars>>

sessionVars == <<storedUser, stateStored, codeValid>>
handlerVars == <<mounted, hasProcessed, reruns, loginCalls, pc,
                 loginResult, caught, checks, error, navTo>>
lifeVars == <<subscribed, renewal, renewAttempts, renewCalls, signout,
             unhandled>>

\* ------------------------------------------------------------------------
\* AuthService (authService.ts)
\* ------------------------------------------------------------------------
PartialUser(t) == [present |-> TRUE, access_token |-> Null, expires_at |-> 0]
\* A User as signinRedirectCallback stores it.
NewUser(t) == [present |-> TRUE, access_token |-> "at-1", expires_at |-> t]

\* User.expired of oidc-client-ts: expires_in = expires_at - now; expired
\* is expires_in <= 0.
expired(u, t) == u.expires_at - t <= 0

ReadsRaw == storedUser
\* getUser(): the stored user or null; catch (error) { return null; }
getUser == IF storedUser = Unreadable THEN NoUser ELSE storedUser

IgnoresExpiry(u, t) == u # NoUser
\* isAuthenticated(): user !== null && !user.expired
isAuthenticated(u, t) == u # NoUser /\ ~expired(u, t)

\* getAccessToken(): user?.access_token || null
getAccessToken(u) == IF u # NoUser THEN u.access_token ELSE Null

\* ------------------------------------------------------------------------
\* AuthProvider (AuthContext.tsx)
\* ------------------------------------------------------------------------
DropsLoadedUser(loadedUser) == user
\* handleUserLoaded: setUser(loadedUser)
handleUserLoaded(loadedUser) == loadedUser

\* value.isAuthenticated: user !== null && !user.expired
ctxIsAuthenticated == user # NoUser /\ ~expired(user, now)

\* ------------------------------------------------------------------------
\* ProtectedRoute, Login page and navigation
\* ------------------------------------------------------------------------
SavesWhenAllowed(url, ru, u, loading) ==
  IF loading
    THEN [loc |-> url, ru |-> ru, dec |-> "spinner"]
    ELSE IF ~isAuthenticated(u, now)
      THEN [loc |-> LoginPath, ru |-> url, dec |-> "denied"]
      ELSE [loc |-> url, ru |-> url, dec |-> "allowed"]
\* What ProtectedRoute renders for the target url (pathname + search) when
\* sessionStorage holds ru and the context holds user u and flag loading:
\* the spinner, the denial (save the target, go to /login) or the children.
ProtectedRoute(url, ru, u, loading) ==
  IF loading
    THEN [loc |-> url, ru |-> ru, dec |-> "spinner"]
    ELSE IF ~isAuthenticated(u, now)
      THEN [loc |-> LoginPath, ru |-> url, dec |-> "denied"]
      ELSE [loc |-> url, ru |-> ru, dec |-> "allowed"]

AlwaysHome(ru) == Home
\* sessionStorage.getItem('returnUrl') || '/'
ReturnDestination(ru) == IF ru = NoUrl THEN Home ELSE ru

StaysOnLogin(ru, u, loading) == [loc |-> LoginPath, ru |-> ru, dec |-> "none"]
\* The effect of the Login page: once the context is authenticated, take
\* the stored returnUrl, remove it and navigate there.
LoginEffect(ru, u, loading) ==
  ProtectedRoute(ReturnDestination(ru), NoUrl, u, loading)

\* What the router shows for url: "/" and "/game" are wrapped in
\* ProtectedRoute, /login runs the Login effect, the other routes render
\* as they are.
Render(url, ru, u, loading) ==
  IF url \in Targets THEN ProtectedRoute(url, ru, u, loading)
  ELSE IF url = LoginPath /\ isAuthenticated(u, now)
    THEN LoginEffect(ru, u, loading)
    ELSE [loc |-> url, ru |-> ru, dec |-> "none"]

\* navigate(url), with sessionStorage holding ru and the context as it is
Navigate(url, ru) ==
  LET r == Render(url, ru, user, isLoading) IN
    /\ location' = r.loc
    /\ returnUrl' = r.ru
    /\ routeDecision' = r.dec

\* The context value changed to (u, loading): the consumers on the current
\* route render again.
ContextChanged(u, loading) ==
  LET r == Render(location, returnUrl, u, loading) IN
    /\ user' = u
    /\ isLoading' = loading
    /\ location' = r.loc
    /\ returnUrl' = r.ru
    /\ routeDecision' = r.dec

\* ------------------------------------------------------------------------
\* AuthCallback (AuthCallback.tsx): completeAuthentication
\* ------------------------------------------------------------------------
\* err.message || err.toString() || 'Authentication failed'
errorMessage(err) == IF Chars(err) # << >> THEN err ELSE "Error"

NeverRechecks(msg) == FALSE
\* errorMessage.includes('state') || errorMessage.includes('already')
LikelyAlreadyProcessed(msg) ==
  \/ Includes(Chars(msg), <<"s","t","a","t","e">>)
  \/ Includes(Chars(msg), <<"a","l","r","e","a","d","y">>)

NeverBlocks(m) == FALSE
\* if (hasProcessed.current) return;
GuardBlocks(m) == hasProcessed[m]

LeavesUnarmed(m) == hasProcessed' = hasProcessed
\* hasProcessed.current = true;
Arm(m) == hasProcessed' = [hasProcessed EXCEPT ![m] = TRUE]

\* The three lines that end a successful run: read returnUrl, remove it,
\* navigate to it.
SuccessPath(m) ==
  /\ Navigate(ReturnDestination(returnUrl), NoUrl)
  /\ navTo' = [navTo EXCEPT ![m] = ReturnDestination(returnUrl)]
  /\ pc' = [pc EXCEPT ![m] = "done"]
  /\ UNCHANGED error

ForgetsReturnUrl(m, msg) ==
  /\ error' = [error EXCEPT ![m] = msg]
  /\ pc' = [pc EXCEPT ![m] = "errorShown"]
  /\ returnUrl' = NoUrl
  /\ UNCHANGED <<location, routeDecision, navTo>>
ErrorWithoutTimer(m, msg) ==
  /\ error' = [error EXCEPT ![m] = msg]
  /\ pc' = [pc EXCEPT ![m] = "done"]
  /\ UNCHANGED <<location, returnUrl, routeDecision, navTo>>
\* setError(errorMessage); setTimeout(() => navigate('/'), 3000)
ShowError(m, msg) ==
  /\ error' = [error EXCEPT ![m] = msg]
  /\ pc' = [pc EXCEPT ![m] = "errorShown"]
  /\ UNCHANGED <<location, returnUrl, routeDecision, navTo>>

RecoversAlways(isAuth) == TRUE
\* if (isAuth): the catch block takes the silent redirect
Recovers(isAuth) == isAuth

ClassifiesError(err) ==
  IF err = NoMatchingState THEN "CallbackAlreadyConsumedError"
  ELSE "ExchangeError"
\* AuthService.completeLogin: catch (error) { console.error(..); throw error; }
\* The error its promise rejects with when signinRedirectCallback rejected
\* with err.
completeLogin(err) == err

\* The catch block up to its next suspension point.
CatchBlock(m, err) ==
  LET isAuth == isAuthenticated(getUser, now) IN
    /\ caught' = [caught EXCEPT ![m] = err]
    /\ checks' = [checks EXCEPT ![m] = Append(@, isAuth)]
    /\ IF Recovers(isAuth)
         THEN SuccessPath(m)
         ELSE IF LikelyAlreadyProcessed(errorMessage(err))
           THEN /\ pc' = [pc EXCEPT ![m] = "delay500"]
                /\ UNCHANGED <<location, returnUrl, routeDecision, navTo, error>>
           ELSE ShowError(m, errorMessage(err))

\* ------------------------------------------------------------------------
\* Initial state: the application was opened at "/" or at /login and
\* localStorage may hold the user of an earlier visit, live or expired.
\* ------------------------------------------------------------------------
NoHandler(field) == [m \in Mounts |-> field]

FreshHandlers ==
  /\ mounted = NoHandler(FALSE)
  /\ hasProcessed = NoHandler(FALSE)
  /\ reruns = 0
  /\ loginCalls = NoHandler(0)
  /\ pc = NoHandler("idle")
  /\ loginResult = NoHandler("none")
  /\ caught = NoHandler(NoError)
  /\ checks = NoHandler(<< >>)
  /\ error = NoHandler(NoError)
  /\ navTo = NoHandler(NoUrl)

\* The page unloads: every component instance and pending callback is gone.
PageUnloads ==
  /\ mounted' = NoHandler(FALSE)
  /\ hasProcessed' = NoHandler(FALSE)
  /\ reruns' = 0
  /\ loginCalls' = NoHandler(0)
  /\ pc' = NoHandler("idle")
  /\ loginResult' = NoHandler("none")
  /\ caught' = NoHandler(NoError)
  /\ checks' = NoHandler(<< >>)
  /\ error' = NoHandler(NoError)
  /\ navTo' = NoHandler(NoUrl)

NoSignout == [st |-> "none"]

\* ------------------------------------------------------------------------
\* Autocomplete (hooks.tsx, Autocomplete.tsx, fakeAutocompleteApi.ts): values
\* ------------------------------------------------------------------------
\* Titles of the suggestions the API knows; a suggestion is its title.
mockDatabase == << <<"a", "b">>, <<"a", "c">> >>

\* What the user types into the input.
Typed == {<< >>, <<"a">>, <<"a", "b">>}
Queries == Typed \cup {mockDatabase[i] : i \in 1..Len(mockDatabase)}

\* fakeAutocompleteApi: [] for a blank query, else the items whose title
\* includes the query.
fakeAutocompleteApi(q) ==
  IF q = << >> THEN << >>
  ELSE SelectSeq(mockDatabase, LAMBDA title : Includes(title, q))

minQueryLength == 1
debounceMs == 1
cacheDurationMs == 1

NoIndex == << >>                   \* activeIndex null
Index(i) == <<i>>
NoEntry == [cached |-> FALSE]      \* cacheRef.current.get(query) undefined
NoTimer == [pending |-> FALSE]

\* useAutocomplete(...) at its first render
FreshAutocomplete ==
  /\ query = << >>
  /\ results = << >>
  /\ hookLoading = FALSE
  /\ fetchError = NoError
  /\ isOpen = FALSE
  /\ activeIndex = NoIndex
  /\ cache = [q \in Queries |-> NoEntry]
  /\ lastRequested = << >>
  /\ debounce = NoTimer
  /\ inflight = {}

\* The AuthProvider effect has registered its handlers; no renewal, no
\* logout and no rejection yet.
FreshSession ==
  /\ subscribed = TRUE
  /\ renewal = "idle"
  /\ renewAttempts = 0
  /\ renewCalls = 0
  /\ signout = NoSignout
  /\ unhandled = FALSE

Init ==
  /\ now = 0
  /\ storedUser \in {NoUser, NewUser(0), NewUser(1)}
  /\ stateStored = FALSE
  /\ codeValid = FALSE
  /\ returnUrl = NoUrl
  /\ location \in {Home, LoginPath}
  /\ loginTarget = NoUrl
  /\ logins = 0
  /\ user = NoUser
  /\ isLoading = TRUE
  /\ routeDecision = IF location = Home THEN "spinner" ELSE "none"
  /\ lastRequest = [sent |-> FALSE]
  /\ FreshHandlers
  /\ signIn = "ready"
  /\ FreshSession
  /\ FreshAutocomplete

\* ------------------------------------------------------------------------
\* Environment
\* ------------------------------------------------------------------------
\* loadUser awaits nothing but localStorage: it settles in the microtasks
\* of the page load, before any user event, timer or network response.
LoadSettled == ~isLoading

\* A second passes.
Tick ==
  /\ now < MaxTime
  /\ now' = now + 1
  /\ UNCHANGED <<sessionVars, returnUrl, location, loginTarget, logins, user,
                 isLoading, routeDecision, lastRequest, handlerVars>>
  /\ UNCHANGED <<signIn, lifeVars>>
  /\ UNCHANGED autoVars

\* The user follows a link of the application, once the callbacks of the
\* callback route (if any) have run to their end.
UserVisits(p) ==
  /\ LoadSettled
  /\ subscribed
  /\ signIn # "busy"
  /\ location \notin {IdentityServer, CallbackPath}
  /\ \A m \in Mounts : pc[m] \in {"idle", "done"}
  /\ Navigate(p, returnUrl)
  /\ UNCHANGED <<now, sessionVars, loginTarget, logins, user, isLoading,
                 lastRequest, handlerVars>>
  /\ UNCHANGED <<signIn, lifeVars>>
  /\ UNCHANGED autoVars

StaysLoading == TRUE
\* loadUser: finally { setIsLoading(false); }
loadUserFinally == FALSE

\* AuthProvider.loadUser: getUser() settles, setUser, setIsLoading(false).
LoadUserSettles ==
  /\ isLoading
  /\ location # IdentityServer
  /\ ContextChanged(getUser, loadUserFinally)
  /\ UNCHANGED <<now, sessionVars, loginTarget, logins, lastRequest,
                 handlerVars>>
  /\ UNCHANGED <<signIn, lifeVars>>
  /\ UNCHANGED autoVars

\* The callers of the protocol operations and what each does with the
\* promise: handleLogin and completeAuthentication await in a try/catch,
\* the SilentRenew component chains .catch; the accessTokenExpired handler
\* of AuthService calls this.logout() and drops the promise, the header
\* button passes AuthProvider.logout (await, no catch) as onClick.
Callers == {"handleLogin", "completeAuthentication", "SilentRenew",
            "accessTokenExpired", "AppHeader"}
Catches(caller) ==
  caller \in {"handleLogin", "completeAuthentication", "SilentRenew"}

\* A promise of caller's call rejected.
Rejected(caller) == unhandled' = (unhandled \/ ~Catches(caller))

SwallowsLoginError(err) == NoError
\* AuthService.login: catch (error) { console.error(..); throw error; }
\* The error its promise rejects with when signinRedirect rejected with err.
login(err) == err

\* handleLogin after await login() settled without a redirect: the catch
\* block runs setIsLoading(false); with no rejection nothing follows the
\* await and the button stays disabled.
handleLogin(err) == IF err # NoError THEN "failed" ELSE "stuck"

\* Login.handleLogin: setIsLoading(true), then AuthService.login ->
\* signinRedirect, which fetches the provider's metadata.
SignInClick ==
  /\ LoadSettled
  /\ location = LoginPath
  /\ signIn \in {"ready", "failed"}
  /\ logins < MaxLogins
  /\ logins' = logins + 1
  /\ signIn' = "busy"
  /\ UNCHANGED <<now, sessionVars, returnUrl, location, loginTarget, user,
                 isLoading, routeDecision, lastRequest, handlerVars, lifeVars>>
  /\ UNCHANGED autoVars

\* signinRedirect goes through: the signin state is stored and the browser
\* leaves for the identity server.
SignInRedirects ==
  /\ signIn = "busy"
  /\ signIn' = "ready"
  /\ stateStored' = TRUE
  /\ loginTarget' = returnUrl
  /\ location' = IdentityServer
  /\ routeDecision' = "none"
  /\ user' = NoUser
  /\ isLoading' = TRUE
  /\ lastRequest' = [sent |-> FALSE]
  /\ PageUnloads
  /\ UNCHANGED <<now, storedUser, codeValid, returnUrl, logins, lifeVars>>
  /\ UNCHANGED autoVars

\* signinRedirect rejects before it has stored anything or navigated (the
\* metadata could not be fetched, the settings give no endpoint).
SignInFails(err) ==
  /\ signIn = "busy"
  /\ signIn' = handleLogin(login(err))
  /\ IF login(err) # NoError
       THEN Rejected("handleLogin")
       ELSE UNCHANGED unhandled
  /\ UNCHANGED <<now, sessionVars, returnUrl, location, loginTarget, logins,
                 user, isLoading, routeDecision, lastRequest, handlerVars,
                 subscribed, renewal, renewAttempts, renewCalls, signout>>
  /\ UNCHANGED autoVars

\* The identity server redirects to /auth/callback?code=..&state=..: the
\* page loads again, the code it carries is redeemable or not.
IdentityServerRedirectsBack ==
  /\ location = IdentityServer
  /\ location' = CallbackPath
  /\ codeValid' \in BOOLEAN
  /\ UNCHANGED <<now, storedUser, stateStored, returnUrl, loginTarget, logins,
                 user, isLoading, routeDecision, lastRequest, handlerVars>>
  /\ UNCHANGED <<signIn, lifeVars>>
  /\ UNCHANGED autoVars

\* localStorage belongs to the origin: while this tab waits at the identity
\* server, a login completed in another tab stores its user there.
OtherTabSignsIn ==
  /\ location = IdentityServer
  /\ ~isAuthenticated(getUser, now)
  /\ storedUser' = NewUser(now + 1)
  /\ UNCHANGED <<now, stateStored, codeValid, returnUrl, location, loginTarget,
                 logins, user, isLoading, routeDecision, lastRequest,
                 handlerVars>>
  /\ UNCHANGED <<signIn, lifeVars>>
  /\ UNCHANGED autoVars

\* apiClient request interceptor: Authorization: Bearer <token> if
\* getAccessToken() gave one.
ApiRequest ==
  /\ routeDecision = "allowed"
  /\ lastRequest' = [sent |-> TRUE,
                     bearer |-> getAccessToken(getUser),
                     authenticated |-> isAuthenticated(getUser, now)]
  /\ UNCHANGED <<now, sessionVars, returnUrl, location, loginTarget, logins,
                 user, isLoading, routeDecision, handlerVars>>
  /\ UNCHANGED <<signIn, lifeVars>>
  /\ UNCHANGED autoVars

\* ------------------------------------------------------------------------
\* AuthCallback
\* ------------------------------------------------------------------------
\* The router mounts an instance of the component.
MountCallback(m) ==
  /\ location = CallbackPath
  /\ ~mounted[m]
  /\ \A k \in Mounts : k < m => mounted[k]
  /\ mounted' = [mounted EXCEPT ![m] = TRUE]
  /\ UNCHANGED <<now, sessionVars, returnUrl, location, loginTarget, logins,
                 user, isLoading, routeDecision, lastRequest, hasProcessed,
                 reruns, loginCalls, pc, loginResult, caught, checks,
                 error, navTo>>
  /\ UNCHANGED <<signIn, lifeVars>>
  /\ UNCHANGED autoVars

\* One run of the effect body: the guard, then completeAuthentication up to
\* its first wait.  signinRedirectCallback takes the stored signin state and
\* sends the token request; a call that finds no state rejects at once (it
\* awaits only the state store), and the catch block runs in the same task.
EffectRun(m) ==
  /\ location = CallbackPath
  /\ mounted[m]
  /\ IF GuardBlocks(m)
       THEN /\ reruns < MaxReruns
            /\ reruns' = reruns + 1
            /\ UNCHANGED <<hasProcessed, loginCalls, stateStored, pc,
                           loginResult, caught, checks, error, navTo,
                           location, returnUrl, routeDecision>>
       ELSE /\ Arm(m)
            /\ loginCalls' = [loginCalls EXCEPT ![m] = @ + 1]
            /\ stateStored' = FALSE
            /\ UNCHANGED reruns
            /\ IF stateStored
                 THEN /\ pc' = [pc EXCEPT ![m] = "exchanging"]
                      /\ UNCHANGED <<loginResult, caught, checks, error, navTo,
                                     location, returnUrl, routeDecision>>
                 ELSE /\ loginResult' = [loginResult EXCEPT ![m] = "failed"]
                      /\ CatchBlock(m, completeLogin(NoMatchingState))
  /\ UNCHANGED <<now, storedUser, codeValid, loginTarget, logins, user,
                 isLoading, lastRequest, mounted>>
  /\ UNCHANGED <<signIn, lifeVars>>
  /\ UNCHANGED autoVars

\* completeLogin() resolves: the code was exchanged, the user is stored and
\* the userLoaded event has reached AuthProvider.  The handler of the event
\* does not wait for loadUser: the step is allowed before the load settled.
ExchangeSucceeds(m) ==
  /\ pc[m] = "exchanging"
  /\ codeValid
  /\ codeValid' = FALSE
  /\ storedUser' = NewUser(now + 1)
  /\ ContextChanged(handleUserLoaded(storedUser'), isLoading)
  /\ loginResult' = [loginResult EXCEPT ![m] = "ok"]
  /\ pc' = [pc EXCEPT ![m] = "delay200"]
  /\ UNCHANGED <<now, stateStored, loginTarget, logins, lastRequest, mounted,
                 hasProcessed, reruns, loginCalls, caught, checks, error,
                 navTo>>
  /\ UNCHANGED <<signIn, lifeVars>>
  /\ UNCHANGED autoVars

\* completeLogin() rejects after a token request: the server refused the
\* code, or the request did not get through.
ExchangeFails(m, err) ==
  /\ pc[m] = "exchanging"
  /\ LoadSettled
  /\ err = InvalidGrant => ~codeValid
  /\ loginResult' = [loginResult EXCEPT ![m] = "failed"]
  /\ CatchBlock(m, completeLogin(err))
  /\ UNCHANGED <<now, sessionVars, loginTarget, logins, user, isLoading,
                 lastRequest, mounted, hasProcessed, reruns, loginCalls>>
  /\ UNCHANGED <<signIn, lifeVars>>
  /\ UNCHANGED autoVars

\* After the 200 ms delay: verify, then the success path, or throw into
\* the catch block.
AfterDelay200(m) ==
  /\ pc[m] = "delay200"
  /\ LoadSettled
  /\ IF isAuthenticated(getUser, now)
       THEN SuccessPath(m) /\ UNCHANGED <<caught, checks>>
       ELSE CatchBlock(m, VerificationFailed)
  /\ UNCHANGED <<now, sessionVars, loginTarget, logins, user, isLoading,
                 lastRequest, mounted, hasProcessed, reruns, loginCalls,
                 loginResult>>
  /\ UNCHANGED <<signIn, lifeVars>>
  /\ UNCHANGED autoVars

RetryNeverRecovers(retryAuth) == FALSE
\* if (retryAuth): the re-check found the session of the other invocation
RetryRecovers(retryAuth) == retryAuth

\* After the 500 ms delay: the one re-check.
AfterDelay500(m) ==
  LET retryAuth == isAuthenticated(getUser, now) IN
    /\ pc[m] = "delay500"
    /\ LoadSettled
    /\ checks' = [checks EXCEPT ![m] = Append(@, retryAuth)]
    /\ IF RetryRecovers(retryAuth)
         THEN SuccessPath(m)
         ELSE ShowError(m, errorMessage(caught[m]))
    /\ UNCHANGED <<now, sessionVars, loginTarget, logins, user, isLoading,
                   lastRequest, mounted, hasProcessed, reruns, loginCalls,
                   loginResult, caught>>
    /\ UNCHANGED <<signIn, lifeVars>>
    /\ UNCHANGED autoVars

\* The 3000 ms timer of the error display: navigate('/').
ErrorTimerFires(m) ==
  /\ pc[m] = "errorShown"
  /\ LoadSettled
  /\ Navigate(Home, returnUrl)
  /\ navTo' = [navTo EXCEPT ![m] = Home]
  /\ pc' = [pc EXCEPT ![m] = "done"]
  /\ UNCHANGED <<now, sessionVars, loginTarget, logins, user, isLoading,
                 lastRequest, mounted, hasProcessed, reruns, loginCalls,
                 loginResult, caught, checks, error>>
  /\ UNCHANGED <<signIn, lifeVars>>
  /\ UNCHANGED autoVars

Next ==
  \/ Tick
  \/ \E p \in Targets \cup {LoginPath} : UserVisits(p)
  \/ LoadUserSettles
  \/ SignInClick
  \/ SignInRedirects
  \/ \E err \in {NetworkError} : SignInFails(err)
  \/ IdentityServerRedirectsBack
  \/ OtherTabSignsIn
  \/ ApiRequest
  \/ \E m \in Mounts : MountCallback(m)
  \/ \E m \in Mounts : EffectRun(m)
  \/ \E m \in Mounts : ExchangeSucceeds(m)
  \/ \E m \in Mounts : \E err \in {InvalidGrant, NetworkError} : ExchangeFails(m, err)
  \/ \E m \in Mounts : AfterDelay200(m)
  \/ \E m \in Mounts : AfterDelay500(m)
  \/ \E m \in Mounts : ErrorTimerFires(m)

Spec == Init /\ [][Next]_vars

\* ------------------------------------------------------------------------
\* The life of a stored session: silent renewal, expiry, logout and the
\* AuthProvider subscription, on a page that was opened with a user in
\* localStorage.
\* ------------------------------------------------------------------------
NoSilentRenew == FALSE
\* authConfig: automaticSilentRenew: true
automaticSilentRenew == TRUE

\* The page is open and no logout is under way.
SessionRuns == LoadSettled /\ location # IdentityServer /\ signout = NoSignout

\* The accessTokenExpiring timer of the UserManager: it fires RenewMargin
\* seconds before expires_at (at once, if the user was loaded later than
\* that), and with automaticSilentRenew the UserManager then starts
\* signinSilent in a hidden iframe.
RenewalDue ==
  /\ automaticSilentRenew
  /\ SessionRuns
  /\ getUser # NoUser
  /\ renewal = "idle"
  /\ storedUser.expires_at - RenewMargin <= now
  /\ now < storedUser.expires_at

\* The accessTokenExpired timer of the UserManager.
ExpiredDue ==
  /\ SessionRuns
  /\ getUser # NoUser
  /\ expired(storedUser, now)

KeepsUserOnUnloaded(u) == u
\* handleUserUnloaded: setUser(null), whatever user u the state held
handleUserUnloaded(u) == NoUser

\* handleAccessTokenExpired: setUser(null)
handleAccessTokenExpired(u) == NoUser

\* An event of the UserManager reaches AuthProvider, whose handler sets the
\* user to u: only while its handlers are registered.
Notify(u) ==
  IF subscribed
    THEN ContextChanged(u, isLoading)
    ELSE UNCHANGED <<user, isLoading, location, returnUrl, routeDecision>>

\* A second passes; the timers of the UserManager fire when they are due.
SessionTick ==
  /\ now < MaxTime
  /\ LoadSettled
  /\ ~RenewalDue
  /\ now' = now + 1
  /\ UNCHANGED <<sessionVars, returnUrl, location, loginTarget, logins, user,
                 isLoading, routeDecision, lastRequest, handlerVars, signIn,
                 lifeVars>>
  /\ UNCHANGED autoVars

\* accessTokenExpiring: the UserManager opens the authorize endpoint in the
\* iframe; the SilentRenew route will answer it.
RenewalStarts ==
  /\ RenewalDue
  /\ renewal' = "pending"
  /\ renewAttempts' = renewAttempts + 1
  /\ renewCalls' = 0
  /\ UNCHANGED <<now, sessionVars, returnUrl, location, loginTarget, logins,
                 user, isLoading, routeDecision, lastRequest, handlerVars,
                 signIn, subscribed, signout, unhandled>>
  /\ UNCHANGED autoVars

\* SilentRenew: completeSilentRenew() resolves, the UserManager of the page
\* stores the renewed user and raises userLoaded.
RenewalSucceeds ==
  /\ renewal = "pending"
  /\ renewCalls >= 1
  /\ SessionRuns
  /\ storedUser' = NewUser(now + RenewMargin + 1)
  /\ Notify(handleUserLoaded(storedUser'))
  /\ renewal' = "idle"
  /\ renewAttempts' = 0
  /\ UNCHANGED <<now, stateStored, codeValid, loginTarget, logins,
                 lastRequest, handlerVars, signIn, subscribed, renewCalls,
                 signout, unhandled>>
  /\ UNCHANGED autoVars

\* The SilentRenew route in the iframe: one run of the effect body,
\* authService.completeSilentRenew().catch(..); the effect has no guard.
SilentRenewEffect ==
  /\ renewal = "pending"
  /\ SessionRuns
  /\ renewCalls < 1 + MaxReruns
  /\ renewCalls' = renewCalls + 1
  /\ UNCHANGED <<now, sessionVars, returnUrl, location, loginTarget, logins,
                 user, isLoading, routeDecision, lastRequest, handlerVars,
                 signIn, subscribed, renewal, renewAttempts, signout,
                 unhandled>>
  /\ UNCHANGED autoVars

ClearsOnRenewError(u) == NoUser
\* addSilentRenewError handler: console.error('Silent renew error:', error).
\* The stored user it leaves behind.
onSilentRenewError(u) == u

RetriesAfterRenewError == "idle"
\* The renewal after the silentRenewError handler and the catch of the
\* SilentRenew component have run: both log, neither starts another.
afterSilentRenewError == "failed"

\* The renewal fails: completeSilentRenew() rejects in the iframe (caught
\* by the SilentRenew component) or the provider answers with an error;
\* the UserManager raises silentRenewError.
RenewalFails ==
  /\ renewal = "pending"
  /\ SessionRuns
  /\ storedUser' = onSilentRenewError(storedUser)
  /\ IF storedUser' = storedUser
       THEN UNCHANGED <<user, isLoading, location, returnUrl, routeDecision>>
       ELSE Notify(handleUserUnloaded(user))
  /\ renewal' = afterSilentRenewError
  /\ Rejected("SilentRenew")
  /\ UNCHANGED <<now, stateStored, codeValid, loginTarget, logins,
                 lastRequest, handlerVars, signIn, subscribed, renewAttempts,
                 renewCalls, signout>>
  /\ UNCHANGED autoVars

KeepsUserOnSignout(u) == u
\* AuthService.logout -> signoutRedirect: the UserManager removes the
\* stored user before it asks for the end-session endpoint.
logout(u) == NoUser

\* AuthService.logout up to the request for the end-session endpoint;
\* removeUser raises userUnloaded.
LogoutBegins(caller) ==
  /\ storedUser' = logout(storedUser)
  /\ signout' = [st |-> "pending", by |-> caller]

\* accessTokenExpired: the handler of AuthProvider sets the user to null,
\* the handler of AuthService calls this.logout().
AccessTokenExpired ==
  /\ ExpiredDue
  /\ LogoutBegins("accessTokenExpired")
  /\ Notify(IF storedUser' = NoUser
              THEN handleUserUnloaded(handleAccessTokenExpired(user))
              ELSE handleAccessTokenExpired(user))
  /\ UNCHANGED <<now, stateStored, codeValid, loginTarget, logins,
                 lastRequest, handlerVars, signIn, subscribed, renewal,
                 renewAttempts, renewCalls, unhandled>>
  /\ UNCHANGED autoVars

\* AppHeader: <button onClick={logout}>Sign out</button>, shown while the
\* context is authenticated.
HeaderLogout ==
  /\ SessionRuns
  /\ subscribed
  /\ ctxIsAuthenticated
  /\ LogoutBegins("AppHeader")
  /\ IF storedUser' = NoUser
       THEN Notify(handleUserUnloaded(user))
       ELSE UNCHANGED <<user, isLoading, location, returnUrl, routeDecision>>
  /\ UNCHANGED <<now, stateStored, codeValid, loginTarget, logins,
                 lastRequest, handlerVars, signIn, subscribed, renewal,
                 renewAttempts, renewCalls, unhandled>>
  /\ UNCHANGED autoVars

\* signoutRedirect navigates: the browser leaves for the end-session
\* endpoint of the identity server.
LogoutRedirects ==
  /\ signout.st = "pending"
  /\ signout' = NoSignout
  /\ location' = IdentityServer
  /\ routeDecision' = "none"
  /\ user' = NoUser
  /\ isLoading' = TRUE
  /\ UNCHANGED <<now, sessionVars, returnUrl, loginTarget, logins,
                 lastRequest, handlerVars, signIn, subscribed, renewal,
                 renewAttempts, renewCalls, unhandled>>
  /\ UNCHANGED autoVars

\* signoutRedirect rejects (no end-session endpoint could be had): logout
\* logs and rethrows, to a caller that may or may not catch.
LogoutFails ==
  /\ signout.st = "pending"
  /\ signout' = [signout EXCEPT !.st = "failed"]
  /\ Rejected(signout.by)
  /\ UNCHANGED <<now, sessionVars, returnUrl, location, loginTarget, logins,
                 user, isLoading, routeDecision, lastRequest, handlerVars,
                 signIn, subscribed, renewal, renewAttempts, renewCalls>>
  /\ UNCHANGED autoVars

\* AuthService.removeUser -> userManager.removeUser()
removeUser(u) == NoUser

AlwaysNeedsLogin(u) == TRUE
\* if (!user || user.expired)
NeedsLogin(u) == u = NoUser \/ expired(u, now)

\* return Promise.reject(error): the request is answered, its caller gets
\* the 401 error.
Rejected401 == [sent |-> FALSE, rejected |-> TRUE]

\* apiClient response interceptor, status 401: getUser(); if there is no
\* user or the user is expired, removeUser() and window.location.href =
\* '/login', which loads the application anew; if removeUser() rejects
\* (the store refuses the write) the catch block assigns the same location
\* with the user still stored; with a live user nothing.  The error is
\* rejected to the caller of the request in every case.
ApiUnauthorized ==
  /\ lastRequest.sent
  /\ SessionRuns
  /\ lastRequest' = Rejected401
  /\ IF NeedsLogin(getUser)
       THEN /\ \E removed \in BOOLEAN :
                 storedUser' = IF removed THEN removeUser(storedUser)
                               ELSE storedUser
            /\ location' = LoginPath
            /\ routeDecision' = "none"
            /\ user' = NoUser
            /\ isLoading' = TRUE
            /\ subscribed' = TRUE
            /\ renewal' = "idle"
            /\ renewAttempts' = 0
            /\ renewCalls' = 0
            /\ UNCHANGED returnUrl
       ELSE UNCHANGED <<storedUser, location, routeDecision, user, isLoading,
                        subscribed, renewal, renewAttempts, renewCalls,
                        returnUrl>>
  /\ UNCHANGED <<now, stateStored, codeValid, loginTarget, logins,
                 handlerVars, signIn, signout, unhandled>>
  /\ UNCHANGED autoVars

\* The cleanup of the AuthProvider effect: removeUserLoaded,
\* removeUserUnloaded, removeAccessTokenExpired.
AuthProviderUnmounts ==
  /\ subscribed
  /\ LoadSettled
  /\ subscribed' = FALSE
  /\ UNCHANGED <<now, sessionVars, returnUrl, location, loginTarget, logins,
                 user, isLoading, routeDecision, lastRequest, handlerVars,
                 signIn, renewal, renewAttempts, renewCalls, signout,
                 unhandled>>
  /\ UNCHANGED autoVars

SessionInit ==
  /\ now = 0
  /\ storedUser \in {NewUser(t) : t \in 0..MaxTime} \cup {Unreadable}
  /\ stateStored = FALSE
  /\ codeValid = FALSE
  /\ returnUrl = NoUrl
  /\ location \in Targets
  /\ loginTarget = NoUrl
  /\ logins = 0
  /\ user = NoUser
  /\ isLoading = TRUE
  /\ routeDecision = "spinner"
  /\ lastRequest = [sent |-> FALSE]
  /\ FreshHandlers
  /\ signIn = "ready"
  /\ FreshSession
  /\ FreshAutocomplete

SessionNext ==
  \/ SessionTick
  \/ LoadUserSettles
  \/ \E p \in Targets \cup {LoginPath} : UserVisits(p)
  \/ RenewalStarts
  \/ SilentRenewEffect
  \/ RenewalSucceeds
  \/ RenewalFails
  \/ AccessTokenExpired
  \/ HeaderLogout
  \/ LogoutRedirects
  \/ LogoutFails
  \/ ApiRequest
  \/ ApiUnauthorized
  \/ AuthProviderUnmounts

SessionSpec == SessionInit /\ [][SessionNext]_vars

\* ------------------------------------------------------------------------
\* Autocomplete: the hook useAutocomplete and the widget around it
\* ------------------------------------------------------------------------
Min(a, b) == IF a <= b THEN a ELSE b
Max(a, b) == IF a >= b THEN a ELSE b

\* i ?? d
Coalesce(ai, d) == IF ai = NoIndex THEN d ELSE ai[1]

AlwaysFresh(entry) == TRUE
\* Date.now() - cached.ts < cacheDurationMs
Fresh(entry) == now - entry.ts < cacheDurationMs

\* cached && Date.now() - cached.ts < cacheDurationMs
CacheHit(q) == cache[q] # NoEntry /\ Fresh(cache[q])

\* The body of the effect on [query, ...], run for query q: too short a
\* query empties the results; a fresh cache entry answers; otherwise
\* loading is set and the debounce timer is replaced by one for q.
QueryEffect(q) ==
  IF Len(q) < minQueryLength
    THEN /\ results' = << >>
         /\ hookLoading' = FALSE
         /\ fetchError' = NoError
         /\ UNCHANGED debounce
    ELSE IF CacheHit(q)
      THEN /\ results' = cache[q].data
           /\ hookLoading' = FALSE
           /\ fetchError' = NoError
           /\ UNCHANGED debounce
      ELSE /\ hookLoading' = TRUE
           /\ fetchError' = NoError
           /\ debounce' = [pending |-> TRUE, query |-> q,
                           due |-> now + debounceMs]
           /\ UNCHANGED results

\* setQuery(q) and the render that follows: the effect runs if the query
\* changed.
SetQuery(q) ==
  IF q = query
    THEN UNCHANGED <<query, results, hookLoading, fetchError, debounce>>
    ELSE query' = q /\ QueryEffect(q)

\* close(): setIsOpen(false); setActiveIndex(null)
Close ==
  /\ isOpen' = FALSE
  /\ activeIndex' = NoIndex

\* handleSelect(item): setQuery(item.title); onSelect?.(item); close()
handleSelect(item) ==
  /\ SetQuery(item)
  /\ Close

\* <input onChange>: setQuery(e.target.value)
Change(q) ==
  /\ q # query
  /\ SetQuery(q)
  /\ UNCHANGED <<isOpen, activeIndex, cache, lastRequested, inflight>>
  /\ UNCHANGED <<now, pageVars>>

\* <input onFocus>: open()
Focus ==
  /\ ~isOpen
  /\ isOpen' = TRUE
  /\ UNCHANGED <<query, results, hookLoading, fetchError, activeIndex, cache,
                 lastRequested, debounce, inflight>>
  /\ UNCHANGED <<now, pageVars>>

\* The document click listener: a click outside the widget closes it.
OutsideClick ==
  /\ Close
  /\ isOpen \/ activeIndex # NoIndex
  /\ UNCHANGED <<query, results, hookLoading, fetchError, cache,
                 lastRequested, debounce, inflight>>
  /\ UNCHANGED <<now, pageVars>>

Keys == {"ArrowDown", "ArrowUp", "Enter", "Escape"}

\* onKeyDown
KeyDown(key) ==
  /\ IF ~isOpen /\ key \in {"ArrowDown", "ArrowUp"}
       THEN /\ isOpen' = TRUE
            /\ UNCHANGED <<query, results, hookLoading, fetchError,
                           activeIndex, debounce>>
       ELSE IF key = "ArrowDown"
         THEN /\ activeIndex' =
                   Index(Min(Coalesce(activeIndex, -1) + 1, Len(results) - 1))
              /\ UNCHANGED <<query, results, hookLoading, fetchError, isOpen,
                             debounce>>
       ELSE IF key = "ArrowUp"
         THEN /\ activeIndex' =
                   Index(Max(Coalesce(activeIndex, Len(results)) - 1, 0))
              /\ UNCHANGED <<query, results, hookLoading, fetchError, isOpen,
                             debounce>>
       ELSE IF /\ key = "Enter"
               /\ activeIndex # NoIndex
               /\ activeIndex[1] \in 0..(Len(results) - 1)
         THEN handleSelect(results[activeIndex[1] + 1])
       ELSE IF key = "Escape"
         THEN /\ Close
              /\ UNCHANGED <<query, results, hookLoading, fetchError,
                             debounce>>
       ELSE UNCHANGED <<query, results, hookLoading, fetchError, isOpen,
                        activeIndex, debounce>>
  /\ UNCHANGED <<cache, lastRequested, inflight>>
  /\ UNCHANGED <<now, pageVars>>

\* <li onMouseEnter>: setActiveIndex(idx), for an item on display
Hover(idx) ==
  /\ isOpen
  /\ idx \in 0..(Len(results) - 1)
  /\ activeIndex' = Index(idx)
  /\ UNCHANGED <<query, results, hookLoading, fetchError, isOpen, cache,
                 lastRequested, debounce, inflight>>
  /\ UNCHANGED <<now, pageVars>>

\* <li onClick>: handleSelect(r), for an item on display
Click(idx) ==
  /\ isOpen
  /\ idx \in 0..(Len(results) - 1)
  /\ handleSelect(results[idx + 1])
  /\ UNCHANGED <<cache, lastRequested, inflight>>
  /\ UNCHANGED <<now, pageVars>>

\* The debounce timer fires: lastRequestedRef.current = query (the query
\* of the effect run that set the timer) and fetcher(query) is called.
DebounceFires ==
  /\ debounce # NoTimer
  /\ now >= debounce.due
  /\ lastRequested' = debounce.query
  /\ inflight' = inflight \cup {debounce.query}
  /\ debounce' = NoTimer
  /\ UNCHANGED <<query, results, hookLoading, fetchError, isOpen, activeIndex,
                 cache>>
  /\ UNCHANGED <<now, pageVars>>

\* if (lastRequestedRef.current === query), query being the closure's
StillRequested(q) == lastRequested = q

\* await fetcher(query) resolves with data
FetchResolves(q) ==
  /\ q \in inflight
  /\ inflight' = inflight \ {q}
  /\ IF StillRequested(q)
       THEN /\ results' = fakeAutocompleteApi(q)
            /\ cache' = [cache EXCEPT ![q] =
                           [cached |-> TRUE, ts |-> now,
                            data |-> fakeAutocompleteApi(q)]]
            /\ hookLoading' = FALSE
            /\ fetchError' = NoError
            /\ activeIndex' = NoIndex
       ELSE UNCHANGED <<results, cache, hookLoading, fetchError, activeIndex>>
  /\ UNCHANGED <<query, isOpen, lastRequested, debounce>>
  /\ UNCHANGED <<now, pageVars>>

\* await fetcher(query) rejects: 'Network error'
FetchRejects(q) ==
  /\ q \in inflight
  /\ inflight' = inflight \ {q}
  /\ IF StillRequested(q)
       THEN /\ fetchError' = NetworkError
            /\ hookLoading' = FALSE
       ELSE UNCHANGED <<fetchError, hookLoading>>
  /\ UNCHANGED <<query, results, isOpen, activeIndex, cache, lastRequested,
                 debounce>>
  /\ UNCHANGED <<now, pageVars>>

\* A unit of time passes; a timer that is due fires before the next one.
AutoTick ==
  /\ now < MaxTime
  /\ debounce # NoTimer => now < debounce.due
  /\ now' = now + 1
  /\ UNCHANGED <<pageVars, autoVars>>

\* The page with the widget, opened without a stored session.
AutoInit ==
  /\ Init
  /\ storedUser = NoUser
  /\ location = Home

AutoNext ==
  \/ \E q \in Typed : Change(q)
  \/ Focus
  \/ OutsideClick
  \/ \E key \in Keys : KeyDown(key)
  \/ \E idx \in 0..(Len(mockDatabase) - 1) : Hover(idx)
  \/ \E idx \in 0..(Len(mockDatabase) - 1) : Click(idx)
  \/ DebounceFires
  \/ \E q \in Queries : FetchResolves(q)
  \/ \E q \in Queries : FetchRejects(q)
  \/ AutoTick

AutoSpec == AutoInit /\ [][AutoNext]_vars

TypeOK ==
  /\ now \in 0..MaxTime
  /\ returnUrl \in Targets \cup {NoUrl}
  /\ location \in Targets \cup {LoginPath, CallbackPath, IdentityServer}
  /\ \A m \in Mounts : pc[m] \in {"idle", "exchanging", "delay200",
                                  "delay500", "errorShown", "done"}
  /\ signIn \in {"ready", "busy", "failed", "stuck"}
  /\ subscribed \in BOOLEAN
  /\ renewal \in {"idle", "pending", "failed"}
  /\ renewAttempts \in Nat
  /\ renewCalls \in 0..(1 + MaxReruns)
  /\ signout.st \in {"none", "pending", "failed"}
  /\ signout = NoSignout \/ signout.by \in Callers
  /\ unhandled \in BOOLEAN

\* ------------------------------------------------------------------------
\* Properties
\* ------------------------------------------------------------------------
RECURSIVE SumOver(_, _)
SumOver(f, S) ==
  IF S = {} THEN 0
  ELSE LET x == CHOOSE y \in S : TRUE IN f[x] + SumOver(f, S \ {x})

\* completeLogin() calls made on this page load, all mounts together
TotalLoginCalls == SumOver(loginCalls, Mounts)

Finished(m) == pc[m] \in {"errorShown", "done"}
TookSuccessPath(m) == pc[m] = "done" /\ error[m] = NoError
SomeCheckTrue(m) == \E i \in 1..Len(checks[m]) : checks[m][i]

\* C1 (as stated): over all invocations of the login-callback handler for
\* one redirect, duplicate effect runs and separate mounts alike,
\* completeLogin is invoked at most once in total.
C1_OnceInTotal == TotalLoginCalls <= 1

\* C1 (amended): each mount of the callback component invokes completeLogin
\* at most once, however often its effect runs; the calls of one page load
\* number at most its mounts.
C1_OncePerMount ==
  /\ \A m \in Mounts : loginCalls[m] <= 1
  /\ TotalLoginCalls <= Cardinality({m \in Mounts : mounted[m]})

C1_Witness ==
  /\ reruns >= 1
  /\ \A m \in {1, 2} : mounted[m] /\ loginCalls[m] = 1

\* C2: all handler invocations that redirect to the return destination
\* end at the same destination, whichever of them removed the stored
\* returnUrl first.
C2_SameDestination ==
  \A m1, m2 \in Mounts :
    TookSuccessPath(m1) /\ TookSuccessPath(m2) => navTo[m1] = navTo[m2]

\* C3 (as stated): when one invocation's exchange succeeded and another's
\* completeLogin failed as already consumed, the other never ends in the
\* error display.
C3_NeverErrorDisplay ==
  \A m1, m2 \in Mounts :
    (loginResult[m1] = "ok" /\ loginResult[m2] = "failed"
       /\ caught[m2] = NoMatchingState) => error[m2] = NoError

\* C3 (amended): an invocation whose completeLogin failed as already
\* consumed ends as a success exactly if isAuthenticated() was true at its
\* last check (the one in the catch block, or the one delayed re-check);
\* it ends in the error display only after both checks came out false.
C3_RecoversIfSessionSeen ==
  \A m \in Mounts :
    (loginResult[m] = "failed" /\ caught[m] = NoMatchingState /\ Finished(m)) =>
      /\ Len(checks[m]) \in 1..2
      /\ error[m] = NoError <=> checks[m][Len(checks[m])]
      /\ error[m] # NoError => checks[m] = <<FALSE, FALSE>>

C3_Witness ==
  \E m1, m2 \in Mounts :
    /\ loginResult[m1] = "ok"
    /\ loginResult[m2] = "failed" /\ caught[m2] = NoMatchingState
    /\ TookSuccessPath(m2)
    /\ checks[m2] = <<FALSE, TRUE>>

\* C4: within a page load hasProcessed never goes back from armed to
\* unarmed; a step that calls completeLogin is the step that arms it; an
\* effect run that finds it armed calls nothing.
C4_GuardLatch ==
  [][\A m \in Mounts :
       /\ (hasProcessed[m] /\ ~hasProcessed'[m]) => location' = IdentityServer
       /\ loginCalls'[m] > loginCalls[m] => (~hasProcessed[m] /\ hasProcessed'[m])
       /\ hasProcessed[m] => loginCalls'[m] <= loginCalls[m]]_vars

C4_Witness ==
  \E m \in Mounts : hasProcessed[m] /\ reruns >= 1 /\ loginCalls[m] = 1

\* C5: a handler whose completeLogin succeeded and that redirects goes to
\* the destination that was pending when the login began ('/' if none).
C5_NavigatesToDeniedTarget ==
  \A m \in Mounts :
    (loginResult[m] = "ok" /\ TookSuccessPath(m)) =>
       navTo[m] = ReturnDestination(loginTarget)

\* C6: the step in which a handler verified after a successful
\* completeLogin navigates leaves returnUrl empty and ProtectedRoute
\* rendering the children at the destination, not the redirect to /login.
C6_GuardPermits ==
  [][\A m \in Mounts :
       (loginResult[m] = "ok" /\ pc[m] = "delay200" /\ pc'[m] = "done") =>
          /\ returnUrl' = NoUrl
          /\ routeDecision' = "allowed"
          /\ location' = navTo'[m]]_vars

C6_Witness ==
  \E m \in Mounts :
    /\ loginResult[m] = "ok" /\ TookSuccessPath(m)
    /\ routeDecision = "allowed" /\ location = navTo[m] /\ returnUrl = NoUrl

\* C7: isAuthenticated() is true exactly if a user is stored and
\* now < expires_at; the context's isAuthenticated likewise for its user.
C7_AuthenticatedIffUnexpired ==
  /\ isAuthenticated(getUser, now) <=>
       (storedUser.present /\ now < storedUser.expires_at)
  /\ ctxIsAuthenticated <=> (user.present /\ now < user.expires_at)

C7_Witness ==
  /\ storedUser.present /\ now = storedUser.expires_at
  /\ ~isAuthenticated(getUser, now)
  /\ \E m \in Mounts : checks[m] # << >> /\ ~SomeCheckTrue(m)

\* C8: a request carries a Bearer token exactly if the session was
\* authenticated (stored and unexpired) when getAccessToken() was called.
C8_TokenOnlyWhenAuthenticated ==
  lastRequest.sent => (lastRequest.bearer # Null <=> lastRequest.authenticated)

\* C9: after a failed completeLogin the handler redirects to the return
\* destination only if one of its isAuthenticated() checks was true; if
\* all were false it shows the error and its only navigation is to '/'.
C9_RecoveryNeedsSession ==
  \A m \in Mounts :
    loginResult[m] = "failed" =>
      /\ TookSuccessPath(m) => SomeCheckTrue(m)
      /\ (Finished(m) /\ ~SomeCheckTrue(m)) =>
           (error[m] # NoError /\ navTo[m] \in {NoUrl, Home})
      /\ (pc[m] = "errorShown") => navTo[m] = NoUrl

C9_Witness ==
  \E m1, m2 \in Mounts :
    /\ loginResult[m1] = "failed" /\ TookSuccessPath(m1) /\ SomeCheckTrue(m1)
    /\ loginResult[m2] = "failed" /\ pc[m2] = "done" /\ error[m2] # NoError

\* C10: a failure of the exchange that is not an already-consumed callback
\* ends in the error display and the navigation to '/', whatever session
\* is stored, and completeLogin is not called again.
C10_OtherFailuresAreTerminal ==
  \A m \in Mounts :
    (loginResult[m] = "failed" /\ caught[m] \in {InvalidGrant, NetworkError}
       /\ Finished(m)) =>
      /\ error[m] # NoError
      /\ pc[m] = "done" => navTo[m] = Home
      /\ loginCalls[m] <= 1

\* The 'state' / 'already' test of the catch block, spelled out on the
\* message text of the error an invocation caught.
MentionsStateOrAlready(m) ==
  \/ Includes(Chars(errorMessage(caught[m])), <<"s","t","a","t","e">>)
  \/ Includes(Chars(errorMessage(caught[m])), <<"a","l","r","e","a","d","y">>)

\* C11: an invocation whose completeLogin failed as already consumed and
\* whose first isAuthenticated() check was false waits once and checks
\* once more: it is waiting exactly while it has made one check, a true
\* re-check takes the success path, a false one shows the error, and there
\* is never a third check.
C11_OneDelayedRecheck ==
  \A m \in Mounts :
    (loginResult[m] = "failed" /\ caught[m] = NoMatchingState
       /\ checks[m] # << >> /\ ~checks[m][1]) =>
      /\ Len(checks[m]) <= 2
      /\ pc[m] = "delay500" <=> Len(checks[m]) = 1
      /\ Len(checks[m]) = 2 =>
           IF checks[m][2]
             THEN error[m] = NoError /\ pc[m] = "done" /\ navTo[m] # NoUrl
             ELSE error[m] = errorMessage(NoMatchingState)
                    /\ pc[m] \in {"errorShown", "done"}

C11_Witness ==
  \E m \in Mounts :
    /\ loginResult[m] = "failed" /\ caught[m] = NoMatchingState
    /\ checks[m] = <<FALSE, FALSE>>
    /\ pc[m] = "errorShown" /\ error[m] = errorMessage(NoMatchingState)

\* C12 (as stated): two invocations whose completeLogin failed and whose
\* first isAuthenticated() check gave the same result make the same number
\* of checks and end alike, whatever the text of the error each caught.
C12_MessageIndependent ==
  \A m1, m2 \in Mounts :
    (loginResult[m1] = "failed" /\ loginResult[m2] = "failed"
       /\ Finished(m1) /\ Finished(m2)
       /\ checks[m1][1] = checks[m2][1]) =>
      /\ Len(checks[m1]) = Len(checks[m2])
      /\ error[m1] = NoError <=> error[m2] = NoError

\* C12 (amended): the checks an invocation makes after a failed
\* completeLogin, and its outcome, are decided by the results of its
\* isAuthenticated() checks together with whether the text of the error
\* contains 'state' or 'already': a second check is made exactly if the
\* first was false and the text contains one of the two, and the
\* invocation ends as a success exactly if its last check was true.
C12_ChecksAndSubstringDecide ==
  \A m \in Mounts :
    (loginResult[m] = "failed" /\ Finished(m)) =>
      /\ Len(checks[m]) =
           (IF ~checks[m][1] /\ MentionsStateOrAlready(m) THEN 2 ELSE 1)
      /\ error[m] = NoError <=> checks[m][Len(checks[m])]

C12_Witness ==
  \E m1, m2 \in Mounts :
    /\ loginResult[m1] = "failed" /\ caught[m1] = InvalidGrant
    /\ checks[m1] = <<FALSE>> /\ error[m1] # NoError
    /\ loginResult[m2] = "failed" /\ caught[m2] = NoMatchingState
    /\ checks[m2] = <<FALSE, FALSE>> /\ error[m2] # NoError

\* A step in which the pending silent renewal fails.
RenewalFailsNow == renewal = "pending" /\ renewal' = "failed"

\* A step in which the application is loaded anew (window.location.href
\* assigned): AuthProvider mounts with isLoading true.
PageLoadsNow == ~isLoading /\ isLoading'

\* A step in which the accessTokenExpired event is raised.
ExpiresNow ==
  /\ signout = NoSignout
  /\ signout'.st = "pending" /\ signout'.by = "accessTokenExpired"

\* C13 (as stated): once a silent renewal has failed, isAuthenticated()
\* is false.
C13_FailedRenewalEndsSession ==
  renewal = "failed" => ~isAuthenticated(getUser, now)

\* C13 (amended): the step in which a silent renewal fails leaves the
\* stored user, and with it the result of isAuthenticated(), as it was;
\* after a failed renewal none is pending again while that user is stored
\* and the page is not loaded anew,
\* and no stored user ever gets more than one renewal attempt.
C13_FailedRenewalLeavesSession ==
  [][/\ RenewalFailsNow =>
          /\ storedUser' = storedUser
          /\ isAuthenticated(storedUser', now') <=> isAuthenticated(storedUser, now)
     /\ renewal = "failed" =>
          (renewal' = "failed" \/ storedUser' = NoUser \/ PageLoadsNow)
     /\ renewAttempts' <= 1]_vars

C13_Witness ==
  /\ renewal = "failed" /\ renewAttempts = 1
  /\ isAuthenticated(getUser, now)

\* C14 (as stated): once a silent renewal has failed, the user of the
\* AuthContext is absent.
C14_FailedRenewalClearsView ==
  renewal = "failed" => user = NoUser

\* C14 (amended): the step in which a silent renewal fails changes nothing
\* AuthProvider shows; the accessTokenExpired event that follows when the
\* unrenewed token runs out sets the context user to null while
\* AuthProvider is subscribed, and a protected route then on display gives
\* way to /login with the route saved as returnUrl.
C14_ViewClearedAtExpiry ==
  [][/\ RenewalFailsNow =>
          (user' = user /\ location' = location /\ routeDecision' = routeDecision)
     /\ (ExpiresNow /\ subscribed) =>
          /\ user' = NoUser
          /\ routeDecision' # "allowed"
          /\ location \in Targets =>
               (location' = LoginPath /\ returnUrl' = location)]_vars

C14_Witness ==
  /\ renewal = "failed"
  /\ signout.st = "pending" /\ signout.by = "accessTokenExpired"
  /\ user = NoUser /\ location = LoginPath /\ returnUrl \in Targets

\* C15: a renewal is started only for a stored user that has had none,
\* and only at a time from expires_at - RenewMargin up to, not including,
\* expires_at; the clock of a running page does not move on inside that
\* window before the attempt has been made; after a failed attempt the
\* stored user is never replaced, so that isAuthenticated() is false from
\* expires_at on.
C15_RenewedBeforeExpiry ==
  [][/\ renewAttempts' > renewAttempts =>
          /\ renewAttempts = 0
          /\ storedUser.expires_at - RenewMargin <= now
          /\ now < storedUser.expires_at
     /\ (now' > now /\ SessionRuns /\ storedUser # NoUser
           /\ storedUser.expires_at - RenewMargin <= now
           /\ now < storedUser.expires_at) =>
          renewAttempts = 1
     /\ renewal' = "idle" => renewAttempts' = 0
     /\ renewal = "failed" => storedUser' \in {storedUser, NoUser}
     /\ (renewal' = "failed" /\ storedUser' # NoUser
           /\ now' >= storedUser'.expires_at) =>
          ~isAuthenticated(storedUser', now')]_vars

C15_Witness ==
  /\ renewal = "failed" /\ renewAttempts = 1
  /\ storedUser # NoUser /\ now >= storedUser.expires_at
  /\ ~isAuthenticated(getUser, now)

C17_NoUncaughtRejection == ~unhandled

\* C18 (as stated): the error a failed completeLogin() hands to its caller
\* is one of the two classes.
C18_ErrorIsClassified ==
  \A m \in Mounts :
    loginResult[m] = "failed" =>
      caught[m] \in {"CallbackAlreadyConsumedError", "ExchangeError"}

\* C18 (amended): the error a failed completeLogin() hands to its caller
\* is the error signinRedirectCallback rejected with, as it is: the one
\* for a missing signin state, or the one of the failed token request.
C18_RawErrorRethrown ==
  \A m \in Mounts :
    /\ loginResult[m] = "failed" <=> caught[m] \in {NoMatchingState, InvalidGrant, NetworkError}
    /\ loginResult[m] = "failed" => error[m] \in {NoError, caught[m]}

C18_Witness ==
  \E m1, m2 \in Mounts :
    /\ loginResult[m1] = "failed" /\ caught[m1] = NetworkError
    /\ loginResult[m2] = "failed" /\ caught[m2] = NoMatchingState
    /\ error[m1] = NetworkError

\* C19: the step in which a login fails without a redirect ends the
\* loading state of the Login page with the rejection caught, and leaves
\* the route, the stored user, the signin state and returnUrl as they were.
C19_FailedLoginLeavesPageReady ==
  [][(signIn = "busy" /\ signIn' # "busy" /\ location' # IdentityServer) =>
       /\ signIn' = "failed"
       /\ unhandled' = unhandled
       /\ location' = location /\ routeDecision' = routeDecision
       /\ storedUser' = storedUser /\ stateStored' = stateStored
       /\ returnUrl' = returnUrl /\ user' = user]_vars

C19_Witness ==
  /\ signIn = "failed" /\ logins >= 1
  /\ location = LoginPath /\ ~stateStored /\ returnUrl # NoUrl

\* C20: while AuthProvider is subscribed, a step that loads or removes
\* the stored user leaves the context user equal to it, and the
\* accessTokenExpired event leaves it null; once unsubscribed it stays
\* unsubscribed and no step of the open page changes the context user
\* (a page loaded anew mounts a new AuthProvider).
C20_SubscriberSeesTransitions ==
  [][/\ (subscribed /\ storedUser' # storedUser) => user' = storedUser'
     /\ (subscribed /\ ExpiresNow) => user' = NoUser
     /\ (~subscribed /\ ~PageLoadsNow) =>
          /\ ~subscribed'
          /\ location' # IdentityServer => user' = user]_vars

C20_Witness ==
  /\ ~subscribed
  /\ user # NoUser /\ storedUser # NoUser
  /\ user.expires_at < storedUser.expires_at

\* C21: for every target, stored returnUrl and loading flag, ProtectedRoute
\* denies exactly if the context is neither loading nor authenticated; a
\* denial stores the target (pathname + search) and goes to /login; the
\* spinner and the children leave returnUrl and the route as they are.  A
\* denial on display is at /login with a target stored.
C21_GuardWritesIffDenies ==
  /\ \A url \in Targets, ru \in Targets \cup {NoUrl}, loading \in BOOLEAN :
       LET r == ProtectedRoute(url, ru, user, loading)
           denies == ~loading /\ ~ctxIsAuthenticated
       IN /\ r.dec = "denied" <=> denies
          /\ denies => (r.ru = url /\ r.loc = LoginPath)
          /\ ~denies =>
               /\ r.ru = ru /\ r.loc = url
               /\ r.dec = (IF loading THEN "spinner" ELSE "allowed")
  /\ routeDecision = "denied" => (location = LoginPath /\ returnUrl \in Targets)
  /\ routeDecision \in {"spinner", "allowed"} => location \in Targets

C21_Witness ==
  /\ routeDecision = "denied" /\ location = LoginPath
  /\ returnUrl = "/game?x=1"
  /\ user # NoUser /\ ~ctxIsAuthenticated

\* A step that removes the stored returnUrl.
RemovedNow == returnUrl # NoUrl /\ returnUrl' = NoUrl

\* A step in which an invocation of the callback handler takes one of its
\* redirects to the return destination, and navigates to what was stored.
CallbackRedirectsNow ==
  \E m \in Mounts :
    /\ pc[m] # "done" /\ pc'[m] = "done" /\ error'[m] = NoError
    /\ navTo'[m] = returnUrl

\* C22 (as stated): the stored returnUrl is removed only by a redirect of
\* the callback handler.
C22_OnlyCallbackRemoves == [][RemovedNow => CallbackRedirectsNow]_vars

\* C22 (amended): the stored returnUrl is removed only by a redirect of
\* the callback handler or by the effect of the Login page, which runs
\* when the context turns authenticated while /login is shown; either
\* navigates to the destination it read.
C22_CallbackOrLoginPageRemoves ==
  [][RemovedNow =>
       \/ CallbackRedirectsNow
       \/ /\ location = LoginPath
          /\ isAuthenticated(user', now')
          /\ location' = returnUrl]_vars

C22_Witness ==
  \E m1, m2 \in Mounts :
    /\ pc[m1] = "done" /\ error[m1] # NoError
    /\ pc[m2] = "delay200"
    /\ loginTarget # NoUrl /\ returnUrl = NoUrl
    /\ location = Home /\ routeDecision = "allowed"

\* C23: per load of the silent-renew route in the iframe,
\* completeSilentRenew() is called at most once, however often the effect
\* of the SilentRenew component runs.
C23_RenewCompletedOnce == renewCalls <= 1

\* Steps of the AuthService methods that write the user store.
CompleteLoginStoresNow ==
  \E m \in Mounts : loginResult[m] # "ok" /\ loginResult'[m] = "ok"
LogoutClearsNow ==
  signout = NoSignout /\ signout'.st = "pending" /\ storedUser' = NoUser
InterceptorAnswersNow == lastRequest.sent /\ lastRequest' = Rejected401
RemoveUserNow ==
  InterceptorAnswersNow /\ storedUser' = removeUser(storedUser)
SilentRenewStoresNow ==
  renewal = "pending" /\ renewal' = "idle" /\ storedUser' # NoUser

CompleteLoginFailsNow ==
  \E m \in Mounts : loginResult[m] = "none" /\ loginResult'[m] = "failed"

LoggedOutByExpiry ==
  signout.st \in {"pending", "failed"} /\ signout.by = "accessTokenExpired"

LoginPageSettled ==
  /\ \A ru \in Targets \cup {NoUrl} :
       LET r == Render(LoginPath, ru, user, isLoading) IN
         IF ctxIsAuthenticated
           THEN r.loc = ReturnDestination(ru) /\ r.ru = NoUrl /\ r.loc # LoginPath
           ELSE r.loc = LoginPath /\ r.ru = ru /\ r.dec = "none"
  /\ location = LoginPath => ~ctxIsAuthenticated

\* C27: on /login an authenticated context gives the stored returnUrl (or
\* '/') as the route, with returnUrl removed, and an unauthenticated one
\* gives /login itself with returnUrl as it was; so the page at rest on
\* /login is never authenticated, and a step from /login that ends not
\* authenticated leaves returnUrl alone, unless the route guard has denied
\* a route in it, and reaches no protected route.
C27_LoginPageReturns ==
  /\ LoginPageSettled
  /\ [][/\ LoginPageSettled'
        /\ (location = LoginPath /\ ~isAuthenticated(user', now')) =>
             /\ returnUrl' = returnUrl \/ routeDecision' = "denied"
             /\ location' \notin Targets]_vars

C27_Witness ==
  \E m1, m2 \in Mounts :
    /\ pc[m1] = "done" /\ error[m1] # NoError /\ navTo[m1] = Home
    /\ pc[m2] = "done" /\ loginResult[m2] = "ok" /\ navTo[m2] = Home
    /\ location = Home /\ routeDecision = "allowed" /\ returnUrl = NoUrl
    /\ ctxIsAuthenticated

\* C28: getUser() gives no user or a user that could be read, never the
\* failure of the read: with an unreadable entry in the store it gives
\* null, isAuthenticated() is false and getAccessToken() is null, and the
\* AuthProvider that has loaded holds no user and shows no protected
\* route.
C28_GetUserNeverThrows ==
  /\ getUser # Unreadable
  /\ getUser # NoUser => getUser.present /\ getUser.access_token # Null
  /\ storedUser = Unreadable =>
       /\ getUser = NoUser
       /\ ~isAuthenticated(getUser, now)
       /\ getAccessToken(getUser) = Null
       /\ LoadSettled => (user = NoUser /\ routeDecision # "allowed")

C28_Witness ==
  /\ storedUser = Unreadable /\ LoadSettled
  /\ user = NoUser /\ routeDecision = "denied"
  /\ location = LoginPath /\ returnUrl = "/game?x=1"

\* On a loaded page with AuthProvider mounted, once loadUser has settled
\* or a completeLogin() of the callback page has resolved, the user of the
\* AuthContext is the stored user.
ContextIsStore ==
  (location # IdentityServer /\ subscribed
     /\ (LoadSettled \/ \E m \in Mounts : loginResult[m] = "ok")) =>
    user = getUser

\* C29: from the first of the two, the settling of loadUser and the
\* userLoaded event of a completeLogin() on the callback page, the user of
\* the AuthContext is the stored user in every state, in whichever order
\* the two came; the step in which loadUser settles leaves the context
\* with the user stored at that time.
C29_ContextFollowsStore ==
  /\ ContextIsStore
  /\ [][/\ ContextIsStore'
        /\ (isLoading /\ ~isLoading') => user' = getUser']_vars

C29_Witness ==
  \E m \in Mounts :
    /\ isLoading /\ location = CallbackPath
    /\ loginResult[m] = "ok" /\ pc[m] = "delay200"
    /\ user # NoUser /\ user = storedUser

\* C30: a page starts with isLoading true and the route guard undecided;
\* while isLoading is true the guard neither allows nor denies and the
\* context user is not set; the step in which loadUser settles, with a
\* user, with null or after a failed read, ends the loading and the guard
\* decides; isLoading is true again only for a page loaded anew (the
\* browser left for the identity server, or the 401 interceptor assigned
\* window.location).
C30_LoadingOnce ==
  /\ (isLoading = TRUE /\ routeDecision \in {"spinner", "none"})
  /\ [][/\ PageLoadsNow =>
             \/ location' = IdentityServer
             \/ InterceptorAnswersNow /\ location' = LoginPath
        /\ isLoading' => routeDecision' \in {"spinner", "none"}
        /\ (isLoading /\ isLoading') => user' = user
        /\ (isLoading /\ ~isLoading') =>
             /\ routeDecision' # "spinner"
             /\ location \in Targets => routeDecision' \in {"allowed", "denied"}
       ]_vars

C30_Witness ==
  /\ LoadSettled /\ routeDecision = "allowed" /\ location = "/game?x=1"
  /\ user # NoUser /\ user = storedUser /\ returnUrl = NoUrl
  /\ now = 0 /\ renewal = "idle" /\ ~lastRequest.sent /\ subscribed

\* The suspension points of completeAuthentication in the order in which
\* its code reaches them.
Stage(p) ==
  CASE p = "idle" -> 0
    [] p = "exchanging" -> 1
    [] p = "delay200" -> 2
    [] p = "delay500" -> 3
    [] p = "errorShown" -> 4
    [] p = "done" -> 5

\* What a run of completeAuthentication has done so far: one
\* completeLogin call at most, two isAuthenticated checks in its catch
\* block at most (one after a failed verification), and when it is over
\* either a navigation to a protected route with no error shown or the
\* error shown and the navigation to '/'.
OneOutcome ==
  \A m \in Mounts :
    /\ loginCalls[m] <= 1
    /\ Len(checks[m]) <= 2
    /\ caught[m] = VerificationFailed => Len(checks[m]) <= 1
    /\ pc[m] = "done" =>
         \/ error[m] = NoError /\ navTo[m] \in Targets
         \/ error[m] # NoError /\ navTo[m] = Home
    /\ pc[m] = "errorShown" => (error[m] # NoError /\ navTo[m] = NoUrl)
    /\ pc[m] \notin {"done", "errorShown"} =>
         (error[m] = NoError /\ navTo[m] = NoUrl)

\* C31: every run of completeAuthentication moves forward through its
\* suspension points only (no step goes back, so there is no loop), calls
\* completeLogin once at most and checks isAuthenticated a bounded number
\* of times; when it is over it has navigated once, to the recovered
\* destination with no error shown or to '/' with the error shown, and
\* neither the navigation nor the error changes afterwards on that page.
C31_OneOutcome ==
  /\ OneOutcome
  /\ [][/\ OneOutcome'
        /\ \A m \in Mounts :
             /\ pc'[m] # pc[m] =>
                  \/ Stage(pc'[m]) > Stage(pc[m])
                  \/ pc'[m] = "idle" /\ location' = IdentityServer
             /\ (navTo[m] # NoUrl /\ location' # IdentityServer) =>
                  navTo'[m] = navTo[m]
             /\ (error[m] # NoError /\ location' # IdentityServer) =>
                  error'[m] = error[m]]_vars

C31_Witness ==
  \E m1, m2 \in Mounts :
    /\ pc[m1] = "done" /\ error[m1] = NoError /\ navTo[m1] = "/game?x=1"
    /\ pc[m2] = "done" /\ error[m2] # NoError /\ navTo[m2] = Home
    /\ Len(checks[m2]) = 2 /\ loginCalls[m1] = 1 /\ loginCalls[m2] = 1

\* C32: the step in which a run shows the terminal error leaves returnUrl
\* as it was; the step of its 3000 ms timer, navigate('/'), never removes
\* it and changes it only if the route guard denies '/' and stores that
\* route; a run that ends with returnUrl removed in its last step ends
\* without an error, at the destination it took from returnUrl.
C32_ErrorPathKeepsReturnUrl ==
  [][\A m \in Mounts :
       /\ (pc[m] # "errorShown" /\ pc'[m] = "errorShown") =>
            returnUrl' = returnUrl
       /\ (pc[m] = "errorShown" /\ pc'[m] = "done") =>
            /\ ~RemovedNow
            /\ \/ returnUrl' = returnUrl
               \/ routeDecision' = "denied" /\ returnUrl' = Home
       /\ (RemovedNow /\ pc[m] # "done" /\ pc'[m] = "done") =>
            (error'[m] = NoError /\ navTo'[m] = returnUrl)]_vars

C32_Witness ==
  \E m \in Mounts :
    /\ pc[m] = "errorShown" /\ error[m] # NoError
    /\ caught[m] = InvalidGrant /\ Len(checks[m]) = 1
    /\ returnUrl = "/game?x=1" /\ location = CallbackPath

\* C33: the step in which the interceptor answers a 401 rejects the
\* error to the caller; it sends the browser to /login exactly if
\* getUser() gave no user or an expired one, and then the stored user is
\* removed, or left as it was when removeUser() rejected; with a live user
\* the store, the route and the context stay as they were.
C33_UnauthorizedResponse ==
  [][InterceptorAnswersNow =>
       LET dead == getUser = NoUser \/ expired(getUser, now) IN
         /\ lastRequest'.rejected
         /\ dead => /\ location' = LoginPath /\ isLoading' = TRUE
                     /\ storedUser' \in {NoUser, storedUser}
         /\ ~dead => /\ storedUser' = storedUser /\ location' = location
                      /\ user' = user /\ isLoading' = isLoading
                      /\ routeDecision' = routeDecision
                      /\ returnUrl' = returnUrl]_vars

C33_Witness ==
  /\ lastRequest = Rejected401
  /\ isLoading /\ location = LoginPath /\ user = NoUser
  /\ storedUser # NoUser /\ expired(storedUser, now)

\* A step in which a fetcher(q) promise settles and the hook's results,
\* loading or error change.
ResponseAppliedNow(q) ==
  /\ q \in inflight /\ q \notin inflight'
  /\ <<results', hookLoading', fetchError'>> # <<results, hookLoading, fetchError>>

\* A step in which the fetcher is called with q.
FetcherCalledNow(q) == q \notin inflight /\ q \in inflight'

\* C34: a response changes results, loading or error only if it was
\* fetched for the query the hook has at that time.
C34_ResponseForCurrentQuery ==
  [][\A q \in Queries : ResponseAppliedNow(q) => q = query]_vars

\* C35: the fetcher is called with the query the hook has when the
\* debounce timer fires (the last query of the burst), and never with a
\* query shorter than minQueryLength.
C35_FetchesLastQueryOfBurst ==
  [][\A q \in Queries :
       FetcherCalledNow(q) => (q = query /\ Len(q) >= minQueryLength)]_vars

\* C36: the step in which the query changes to one of sufficient length
\* answers from the cache if its entry is younger than cacheDurationMs
\* (the entry's data as results, loading false, no timer set, no fetcher
\* call) and otherwise sets loading and the debounce timer for that query;
\* the cache changes only in a step in which a fetch resolves, to the data
\* of that response stamped with the time of the step.
C36_CacheAnswersWhileFresh ==
  [][/\ (query' # query /\ Len(query') >= minQueryLength) =>
          LET e == cache[query'] IN
            IF e # NoEntry /\ now - e.ts < cacheDurationMs
              THEN /\ results' = e.data /\ hookLoading' = FALSE
                   /\ debounce' = debounce /\ inflight' = inflight
              ELSE /\ hookLoading' = TRUE /\ inflight' = inflight
                   /\ debounce' = [pending |-> TRUE, query |-> query',
                                   due |-> now + debounceMs]
     /\ \A q \in Queries :
          cache'[q] # cache[q] =>
            /\ q \in inflight /\ q \notin inflight'
            /\ fetchError' = NoError
            /\ cache'[q] = [cached |-> TRUE, ts |-> now,
                            data |-> fakeAutocompleteApi(q)]
            /\ results' = cache'[q].data]_vars

C36_Witness ==
  /\ query = <<"a">> /\ cache[query] # NoEntry /\ now - cache[query].ts = 0
  /\ results = cache[query].data /\ Len(results) = 2 /\ ~hookLoading
  /\ debounce # NoTimer /\ debounce.query = <<"a", "b">>
  /\ inflight = {}

\* C37: activeIndex is null or an index of results.
C37_ActiveIndexInRange ==
  activeIndex = NoIndex \/ activeIndex[1] \in 0..(Len(results) - 1)

====
